---- MODULE Spec2Model ----
(***************************************************************************)
(* Model of src/app.py: a Streamlit script that loads the KOBIS daily box  *)
(* office table once (st.cache_data), and on every rerun of the script     *)
(* shows a column preview, null ratios, two top-10 rankings, a date-range  *)
(* filtered multi-key aggregation and a per-movie series.                  *)
(*                                                                         *)
(* Encoding.  A raw dt value is a sequence of one-character strings; the   *)
(* empty sequence stands for both "" and a null raw value.  A parsed date  *)
(* is the integer y*10000 + m*100 + d (order preserving), NaT is 0.  A     *)
(* null categorical value (None / NaN) is the string NA.  A ratio k/n is   *)
(* the pair <<k, n>>.  A table is a sequence of records.                   *)
(***************************************************************************)
EXTENDS Integers, Sequences, FiniteSets, TLC

VARIABLES
    disk,              \* the rows of the parquet dataset on disk (raw dt)
    cache,             \* st.cache_data entry of load_data: <<>> or <<df>>
    loads,             \* number of times the body of load_data has run
    pc,                \* the section of the script the current pass is at
    df,                \* the table the current pass works on
    selected_columns,  \* value of the multiselect widget
    display_columns,   \* columns of the preview
    preview,           \* df[display_columns].head()
    whole_ratio,       \* <<multiMovieYn_null_ratio, repNationCd_null_ratio>>
    null_ratios,       \* per-date null ratios
    top_sales,         \* top 10 movies by summed salesAmt
    top_audience,      \* top 10 movies by summed audiCnt
    date_range,        \* value of the date_input widget
    audience_data,     \* multi-key sums over the filtered rows
    movie_name,        \* value of the selectbox widget
    movie_data,        \* rows of the selected movie
    from_cache,        \* load_data() returned the cached table in this pass
    ran,               \* sections of the script this pass has executed
    error              \* an exception has aborted the pass

vars == <<disk, cache, loads, pc, df, selected_columns, display_columns,
          preview, whole_ratio, null_ratios, top_sales, top_audience,
          date_range, audience_data, movie_name, movie_data, from_cache, ran, error>>

----------------------------------------------------------------------------
(* Bounds of the model *)

\* rows of a dataset of the small family
MaxRows == 3
\* columns a user picks in the multiselect (column-selection family)
MaxSel == 2
\* characters after the year in a raw dt value (date family)
MaxSuffix == 4
\* movies of the wide family whose measure varies
WideVar == 3
\* passes that may read the disk before the model stops counting
MaxLoads == 2

----------------------------------------------------------------------------
(* Generic helpers *)

NA == "<NA>"
NaT == 0

Range(s) == {s[i] : i \in 1..Len(s)}

Min2(a, b) == IF a <= b THEN a ELSE b

RECURSIVE SumSeq(_)
SumSeq(s) == IF s = <<>> THEN 0 ELSE Head(s) + SumSeq(Tail(s))

\* the first n elements of s (all of s when it is shorter)
Take(s, n) == SubSeq(s, 1, Min2(n, Len(s)))

\* sequences without repetition over S of length at most n
InjSeqs(S, n) ==
    {s \in UNION {[1..k -> S] : k \in 0..n} :
        \A i, j \in 1..Len(s) : i # j => s[i] # s[j]}

\* sequences over S of length 1..n
SeqsUpTo(S, n) == UNION {[1..k -> S] : k \in 1..n}

----------------------------------------------------------------------------
(* load_data: pd.to_datetime(df['dt'], format='%Y%m%d', errors='coerce')   *)
(* The format is matched as strptime matches it: the regular expression    *)
(* (?P<Y>\d\d\d\d)(?P<m>1[0-2]|0[1-9]|[1-9])                                *)
(* (?P<d>3[0-1]|[1-2]\d|0[1-9]|[1-9]| [1-9]) is matched at the start of    *)
(* the text (alternatives in order, with backtracking), and the match must *)
(* end where the text ends.                                                *)

Digits == <<"0", "1", "2", "3", "4", "5", "6", "7", "8", "9">>

IsDigit(c) == c \in Range(Digits)

DigitVal(c) == (CHOOSE i \in 1..10 : Digits[i] = c) - 1

\* the character of s at position i, or "" past the end
CharAt(s, i) == IF i <= Len(s) THEN s[i] ELSE ""

\* the ways %m matches s at position i, in the order the regex tries them
MonthCands(s, i) ==
    LET a == CharAt(s, i)
        b == CharAt(s, i + 1)
    IN  (IF a = "1" /\ b \in {"0", "1", "2"}
            THEN <<[v |-> 10 + DigitVal(b), nxt |-> i + 2]>> ELSE <<>>)
        \o (IF a = "0" /\ IsDigit(b) /\ b # "0"
            THEN <<[v |-> DigitVal(b), nxt |-> i + 2]>> ELSE <<>>)
        \o (IF IsDigit(a) /\ a # "0"
            THEN <<[v |-> DigitVal(a), nxt |-> i + 1]>> ELSE <<>>)

\* the ways %d matches s at position i, in the order the regex tries them
DayCands(s, i) ==
    LET a == CharAt(s, i)
        b == CharAt(s, i + 1)
    IN  (IF a = "3" /\ b \in {"0", "1"}
            THEN <<[v |-> 30 + DigitVal(b), nxt |-> i + 2]>> ELSE <<>>)
        \o (IF a \in {"1", "2"} /\ IsDigit(b)
            THEN <<[v |-> 10 * DigitVal(a) + DigitVal(b), nxt |-> i + 2]>> ELSE <<>>)
        \o (IF a = "0" /\ IsDigit(b) /\ b # "0"
            THEN <<[v |-> DigitVal(b), nxt |-> i + 2]>> ELSE <<>>)
        \o (IF IsDigit(a) /\ a # "0"
            THEN <<[v |-> DigitVal(a), nxt |-> i + 1]>> ELSE <<>>)
        \o (IF a = " " /\ IsDigit(b) /\ b # "0"
            THEN <<[v |-> DigitVal(b), nxt |-> i + 2]>> ELSE <<>>)

IsLeap(y) == (y % 4 = 0 /\ y % 100 # 0) \/ y % 400 = 0

DaysInMonth(y, m) ==
    IF m = 2 THEN (IF IsLeap(y) THEN 29 ELSE 28)
    ELSE IF m \in {4, 6, 9, 11} THEN 30 ELSE 31

DateCode(y, m, d) == y * 10000 + m * 100 + d

\* datetime64[ns] holds 1677-09-21T00:12:43 .. 2262-04-11T23:47:16
InNsBounds(code) == 16770922 <= code /\ code <= 22620411

\* the regex match of %Y%m%d on s: <<>> when there is none, else
\* <<[y, m, d, end]>> for the first alternative pair that matches
MatchYmd(s) ==
    IF ~(Len(s) >= 4 /\ \A i \in 1..4 : IsDigit(s[i])) THEN <<>>
    ELSE LET y  == 1000 * DigitVal(s[1]) + 100 * DigitVal(s[2])
                   + 10 * DigitVal(s[3]) + DigitVal(s[4])
             ms == SelectSeq(MonthCands(s, 5), LAMBDA mc : DayCands(s, mc.nxt) # <<>>)
         IN  IF ms = <<>> THEN <<>>
             ELSE LET mc == Head(ms)
                      dc == Head(DayCands(s, mc.nxt))
                  IN  <<[y |-> y, m |-> mc.v, d |-> dc.v, end |-> dc.nxt]>>

\* one value of the dt column through to_datetime(..., errors='coerce')
ParseDate(raw) ==
    IF raw = <<>> THEN NaT
    ELSE LET found == MatchYmd(raw)
         IN  IF found = <<>> THEN NaT                       \* does not match the format
             ELSE LET f == Head(found)
                  IN  IF f.end # Len(raw) + 1 THEN NaT      \* unconverted data remains
                      ELSE IF f.d > DaysInMonth(f.y, f.m) THEN NaT
                      ELSE IF ~InNsBounds(DateCode(f.y, f.m, f.d)) THEN NaT
                      ELSE DateCode(f.y, f.m, f.d)

\* a date written back as YYYYMMDD (strftime('%Y%m%d'))
FormatDate(code) ==
    LET y == code \div 10000
        m == (code \div 100) % 100
        d == code % 100
        ch(n) == Digits[(n % 10) + 1]
    IN  <<ch(y \div 1000), ch(y \div 100), ch(y \div 10), ch(y),
          ch(m \div 10), ch(m), ch(d \div 10), ch(d)>>

\* raw is eight digits that form a valid calendar date
IsValidYmd8(raw) ==
    /\ Len(raw) = 8
    /\ \A i \in 1..8 : IsDigit(raw[i])
    /\ LET y == 1000 * DigitVal(raw[1]) + 100 * DigitVal(raw[2])
                + 10 * DigitVal(raw[3]) + DigitVal(raw[4])
           m == 10 * DigitVal(raw[5]) + DigitVal(raw[6])
           d == 10 * DigitVal(raw[7]) + DigitVal(raw[8])
       IN  y >= 1 /\ m \in 1..12 /\ d >= 1 /\ d <= DaysInMonth(y, m)

----------------------------------------------------------------------------
(* The dataset: schema and the bounded families of inputs *)

\* df.columns.tolist(): the schema of the parquet dataset
all_columns == <<"dt", "movieCd", "movieNm", "audiCnt", "salesAmt", "audiAcc",
                 "multiMovieYn", "repNationCd", "rank">>

default_columns == <<"dt", "movieCd", "audiAcc", "multiMovieYn", "repNationCd",
                     "rank", "movieNm">>

\* head() without an argument keeps 5 rows
HeadRows == 5

\* head(10) of the two rankings
TopN == 10

\* movie names in the order groupby sorts its keys (ascending)
NameOrder == <<"A", "B", "C", "D", "E", "F", "G", "H", "I", "J", "K", "L">>

KeyIndex(nm) == CHOOSE i \in 1..Len(NameOrder) : NameOrder[i] = nm

D0101 == <<"2", "0", "2", "4", "0", "1", "0", "1">>
D0102 == <<"2", "0", "2", "4", "0", "1", "0", "2">>
D0230 == <<"2", "0", "2", "4", "0", "2", "3", "0">>

MkRow(raw, nm, audi, sales, multi, nation) ==
    [dt |-> raw, movieCd |-> "cd", movieNm |-> nm, audiCnt |-> audi,
     salesAmt |-> sales, audiAcc |-> audi, multiMovieYn |-> multi,
     repNationCd |-> nation, rank |-> 1]

\* the rows the small family is built from
RowPool ==
    { MkRow(D0101, "A", 100, 1000, "Y", "K"),
      MkRow(D0101, "B", 50, 500, NA, "F"),
      MkRow(D0102, "A", 200, 2000, "Y", "K"),
      MkRow(D0101, "B", 100, 1000, "N", NA),
      MkRow(D0230, "A", 50, 500, NA, NA),
      MkRow(D0102, NA, 10, 100, "Y", "K") }

SmallDatasets == SeqsUpTo(RowPool, MaxRows)

\* the wide family: TopN + 1 movies with one row each and a second row for
\* the first movie; the measures of the first WideVar movies vary; the rows
\* are in ascending or descending name order
WideRow(i, f) ==
    MkRow(D0101, NameOrder[i],
          IF i <= WideVar THEN 100 * f[i] ELSE 100 * (1 + (i % 3)),
          IF i <= WideVar THEN 1000 * (3 - f[i]) ELSE 1000 * (1 + (i % 2)),
          "Y", "K")

WideDatasets ==
    { [i \in 1..(TopN + 1) |-> WideRow(IF rev THEN TopN + 2 - i ELSE i, f)]
        \o <<WideRow(1, f)>> :
        f \in [1..WideVar -> 1..2], rev \in BOOLEAN }

\* the date family: one row whose raw dt is "2024" followed by up to
\* MaxSuffix characters, or one of a few special values, then a good row
SuffixChars == {"0", "1", "2", "3"}

RawDates ==
    { <<"2", "0", "2", "4">> \o s : s \in UNION {[1..k -> SuffixChars] : k \in 0..MaxSuffix} }
    \cup { <<>>,
           <<"2", "0", "2", "4", "0", "1", " ", "1">>,
           <<"2", "0", "2", "4", "0", "1", "0", "x">>,
           <<"2", "0", "2", "4", "0", "2", "2", "9">>,
           <<"2", "0", "2", "3", "0", "2", "2", "9">>,
           <<"2", "0", "2", "4", "0", "9", "3", "1">>,
           <<"9", "9", "9", "9", "1", "2", "3", "1">> }

DateDatasets ==
    { <<MkRow(raw, "B", 50, 500, NA, "F"), MkRow(D0101, "A", 100, 1000, "Y", "K")>> :
        raw \in RawDates }

\* the column family: a few datasets, every selection of up to MaxSel columns
ColDatasets == SeqsUpTo(RowPool, 1)

\* the selections of the other families: none, and two columns out of schema order
BasicSelections == {<<>>, <<"movieNm", "dt">>}

AllSelections == InjSeqs(Range(all_columns), MaxSel)

\* dates the user can pick in the date_input widget
DateChoices == {ParseDate(D0101), ParseDate(D0102)}

DateInputs == UNION {[1..k -> DateChoices] : k \in 0..2}

----------------------------------------------------------------------------
(* The operations of the script, as operators on tables *)

\* mutant: the lookup never finds the entry (load_data without st.cache_data)
CacheNever(c) == FALSE

\* the st.cache_data lookup of load_data(): is there an entry for the call
CacheHit(c) == c # <<>>

\* the body of load_data: read every row, convert dt, keep the other fields
LoadBody(rows) ==
    [i \in 1..Len(rows) |-> [rows[i] EXCEPT !.dt = ParseDate(rows[i].dt)]]

\* mutant: the fallback is missing
DisplayColumnsNoFallback(sel) == sel

\* lines 40-44: an empty selection falls back to the default columns
DisplayColumns(sel) == IF sel = <<>> THEN default_columns ELSE sel

\* df[cols] raises KeyError when a column is not in the table
KeyError(cols) == ~(Range(cols) \subseteq Range(all_columns))

\* df[cols].head(): the first rows, restricted to cols, in the order of cols
Preview(table, cols) ==
    [columns |-> cols,
     rows    |-> [i \in 1..Min2(HeadRows, Len(table)) |->
                    [c \in Range(cols) |-> table[i][c]]]]

\* x.isna().mean() over the rows of a table, as <<nulls, rows>>
NaMean(table, col) ==
    <<Cardinality({i \in 1..Len(table) : table[i][col] = NA}), Len(table)>>

\* the elements of a finite set of integers in ascending order
RECURSIVE Ascending(_)
Ascending(S) ==
    IF S = {} THEN <<>>
    ELSE LET lo == CHOOSE x \in S : \A y \in S : x <= y
         IN  <<lo>> \o Ascending(S \ {lo})

\* mutant: groupby('dt', dropna=False) keeps a group for NaT
DateKeysKeepNaT(table) == Ascending({table[i].dt : i \in 1..Len(table)})

\* the group keys of groupby('dt'): the distinct dates, NaT dropped, sorted
DateKeys(table) == Ascending({table[i].dt : i \in 1..Len(table)} \ {NaT})

\* lines 60-63: per-date null ratios
NullRatios(table) ==
    LET keys == DateKeys(table)
    IN  [g \in 1..Len(keys) |->
            LET grp == SelectSeq(table, LAMBDA r : r.dt = keys[g])
            IN  [dt |-> keys[g],
                 multiMovieYn_null_ratio |-> NaMean(grp, "multiMovieYn"),
                 repNationCd_null_ratio |-> NaMean(grp, "repNationCd")]]

\* the group keys of groupby('movieNm'): distinct names, null dropped, sorted
MovieKeys(table) ==
    LET idx == Ascending({KeyIndex(table[i].movieNm) :
                            i \in {j \in 1..Len(table) : table[j].movieNm # NA}})
    IN  [g \in 1..Len(idx) |-> NameOrder[idx[g]]]

\* df.groupby('movieNm')[col].sum(): one row per key, in key order
GroupSum(table, col) ==
    LET keys == MovieKeys(table)
    IN  [g \in 1..Len(keys) |->
            LET grp == SelectSeq(table, LAMBDA r : r.movieNm = keys[g])
            IN  [movieNm |-> keys[g],
                 sum |-> SumSeq([i \in 1..Len(grp) |-> grp[i][col]])]]

\* s without its i-th element
RemoveAt(s, i) == SubSeq(s, 1, i - 1) \o SubSeq(s, i + 1, Len(s))

\* sort_values(ascending=False): the default sort kind is not stable, so
\* the relative order of equal sums is one the build chooses; tie selects
\* between keeping ("first") and reversing ("last") the order of equal rows
RECURSIVE SortValuesDesc(_, _)
SortValuesDesc(s, tie) ==
    IF s = <<>> THEN <<>>
    ELSE LET top  == {i \in 1..Len(s) : \A j \in 1..Len(s) : s[j].sum <= s[i].sum}
             pick == IF tie = "first"
                        THEN CHOOSE i \in top : \A j \in top : i <= j
                        ELSE CHOOSE i \in top : \A j \in top : j <= i
         IN  <<s[pick]>> \o SortValuesDesc(RemoveAt(s, pick), tie)

TieOrders == {"first", "last"}

\* mutant: head(10) of the sums without sort_values
TopValuesUnsorted(table, col, tie) == Take(GroupSum(table, col), TopN)

\* lines 79 and 92: groupby, sum, sort descending, head(10)
TopValues(table, col, tie) == Take(SortValuesDesc(GroupSum(table, col), tie), TopN)

\* mutant: the guard accepts a single endpoint
AnyEndpoint(r) == Len(r) >= 1

\* line 109
HasTwoEndpoints(r) == Len(r) = 2

\* mutant: the two comparisons joined with | instead of &
FilterRangeEither(table, start, end) ==
    SelectSeq(table, LAMBDA r : r.dt # NaT /\ (r.dt >= start \/ r.dt <= end))

\* line 113: rows with start <= dt <= end; a comparison with NaT is false
FilterRange(table, start, end) ==
    SelectSeq(table, LAMBDA r : r.dt # NaT /\ r.dt >= start /\ r.dt <= end)

\* the order groupby sorts the categorical keys in (a null key sorts last)
CatOrder == <<"F", "K", "N", "Y", NA>>

CatIndex(v) == CHOOSE i \in 1..Len(CatOrder) : CatOrder[i] = v

\* mutant: groupby(..., dropna=False)
DropsNothing(v) == FALSE

\* should groupby drop the rows with a null in this key (dropna=True)
DropsNa(v) == v = NA

\* line 116: groupby(['dt', 'multiMovieYn', 'repNationCd'])['audiCnt'].sum()
AudienceData(table) ==
    LET kept == SelectSeq(table, LAMBDA r : ~DropsNa(r.multiMovieYn)
                                            /\ ~DropsNa(r.repNationCd))
        code(r) == r.dt * 100 + CatIndex(r.multiMovieYn) * 10 + CatIndex(r.repNationCd)
        keys == Ascending({code(kept[i]) : i \in 1..Len(kept)})
    IN  [g \in 1..Len(keys) |->
            LET grp == SelectSeq(kept, LAMBDA r : code(r) = keys[g])
            IN  [dt |-> grp[1].dt,
                 multiMovieYn |-> grp[1].multiMovieYn,
                 repNationCd |-> grp[1].repNationCd,
                 audiCnt |-> SumSeq([i \in 1..Len(grp) |-> grp[i].audiCnt])]]

\* line 146: what the selectbox can return: one of df['movieNm'].unique()
\* (a null name is the option None), or None when there is no option
SelectboxValues(table) ==
    IF table = <<>> THEN {NA} ELSE {table[i].movieNm : i \in 1..Len(table)}

\* line 148: if movie_name
Truthy(nm) == nm # NA /\ nm # ""

\* mutant: the rows of the movie with sort_values('dt') added
RECURSIVE SortByDt(_)
SortByDt(s) ==
    IF s = <<>> THEN <<>>
    ELSE LET lo == CHOOSE i \in 1..Len(s) :
                     /\ \A j \in 1..Len(s) : s[i].dt <= s[j].dt
                     /\ \A j \in 1..(i - 1) : s[j].dt # s[i].dt
         IN  <<s[lo]>> \o SortByDt(RemoveAt(s, lo))

MovieDataByDate(table, nm) ==
    LET rows == SortByDt(SelectSeq(table, LAMBDA r : r.movieNm = nm))
    IN  [i \in 1..Len(rows) |->
            [dt |-> rows[i].dt, audiCnt |-> rows[i].audiCnt,
             salesAmt |-> rows[i].salesAmt]]

\* line 150: the rows of the movie, columns dt, audiCnt, salesAmt
MovieData(table, nm) ==
    LET rows == SelectSeq(table, LAMBDA r : r.movieNm = nm)
    IN  [i \in 1..Len(rows) |->
            [dt |-> rows[i].dt, audiCnt |-> rows[i].audiCnt,
             salesAmt |-> rows[i].salesAmt]]

----------------------------------------------------------------------------
(* The state machine: one pass of the script per user interaction *)

Sections == {"preview", "null_ratios", "top_sales", "top_audience",
             "time_series", "movie"}

\* the globals of the script before a pass has assigned them
PassStart ==
    /\ pc = "load"
    /\ df = <<>>
    /\ from_cache = FALSE
    /\ selected_columns = <<>>
    /\ display_columns = <<>>
    /\ preview = <<>>
    /\ whole_ratio = <<>>
    /\ null_ratios = <<>>
    /\ top_sales = <<>>
    /\ top_audience = <<>>
    /\ date_range = <<>>
    /\ audience_data = <<>>
    /\ movie_name = NA
    /\ movie_data = <<>>
    /\ ran = {}
    /\ error = FALSE

InitWith(datasets) ==
    /\ disk \in datasets
    /\ cache = <<>>
    /\ loads = 0
    /\ PassStart

Init == InitWith(SmallDatasets \cup WideDatasets)

InitCols == InitWith(ColDatasets)

InitDates == InitWith(DateDatasets)

\* line 21, first call: the body of load_data runs and its result is cached
LoadMiss ==
    /\ pc = "load"
    /\ ~CacheHit(cache)
    /\ loads < MaxLoads
    /\ df' = LoadBody(disk)
    /\ cache' = <<LoadBody(disk)>>
    /\ loads' = loads + 1
    /\ pc' = "preview"
    /\ UNCHANGED <<disk, from_cache, selected_columns, display_columns, preview, whole_ratio,
                   null_ratios, top_sales, top_audience, date_range,
                   audience_data, movie_name, movie_data, ran, error>>

\* line 21, later calls: the cached table is returned
LoadHit ==
    /\ pc = "load"
    /\ CacheHit(cache)
    /\ df' = Head(cache)
    /\ from_cache' = TRUE
    /\ pc' = "preview"
    /\ UNCHANGED <<disk, cache, loads, selected_columns, display_columns, preview,
                   whole_ratio, null_ratios, top_sales, top_audience, date_range,
                   audience_data, movie_name, movie_data, ran, error>>

\* lines 27-48: the multiselect, the fallback and the preview table
ShowPreview(selections) ==
    /\ pc = "preview"
    /\ \E sel \in selections :
        /\ selected_columns' = sel
        /\ display_columns' = DisplayColumns(sel)
        /\ IF KeyError(DisplayColumns(sel))
              THEN /\ error' = TRUE
                   /\ pc' = "crashed"
                   /\ UNCHANGED <<preview, ran>>
              ELSE /\ preview' = Preview(df, DisplayColumns(sel))
                   /\ ran' = ran \cup {"preview"}
                   /\ pc' = "null_ratios"
                   /\ UNCHANGED error
    /\ UNCHANGED <<disk, cache, loads, df, from_cache, whole_ratio, null_ratios, top_sales,
                   top_audience, date_range, audience_data, movie_name, movie_data>>

\* lines 53-63: whole-table and per-date null ratios
ComputeNullRatios ==
    /\ pc = "null_ratios"
    /\ whole_ratio' = <<NaMean(df, "multiMovieYn"), NaMean(df, "repNationCd")>>
    /\ null_ratios' = NullRatios(df)
    /\ ran' = ran \cup {"null_ratios"}
    /\ pc' = "top_sales"
    /\ UNCHANGED <<disk, cache, loads, df, from_cache, selected_columns, display_columns, preview,
                   top_sales, top_audience, date_range, audience_data, movie_name,
                   movie_data, error>>

\* line 79
ComputeTopSales(ties) ==
    /\ pc = "top_sales"
    /\ \E tie \in ties : top_sales' = TopValues(df, "salesAmt", tie)
    /\ ran' = ran \cup {"top_sales"}
    /\ pc' = "top_audience"
    /\ UNCHANGED <<disk, cache, loads, df, from_cache, selected_columns, display_columns, preview,
                   whole_ratio, null_ratios, top_audience, date_range, audience_data,
                   movie_name, movie_data, error>>

\* line 92
ComputeTopAudience(ties) ==
    /\ pc = "top_audience"
    /\ \E tie \in ties : top_audience' = TopValues(df, "audiCnt", tie)
    /\ ran' = ran \cup {"top_audience"}
    /\ pc' = "time_series"
    /\ UNCHANGED <<disk, cache, loads, df, from_cache, selected_columns, display_columns, preview,
                   whole_ratio, null_ratios, top_sales, date_range, audience_data,
                   movie_name, movie_data, error>>

\* lines 107-141: the date_input, and with two endpoints the filter, the
\* aggregation and its two charts; unpacking any other length raises
TimeSeries ==
    /\ pc = "time_series"
    /\ \E r \in DateInputs :
        /\ date_range' = r
        /\ IF HasTwoEndpoints(r)
              THEN IF Len(r) # 2
                      THEN /\ error' = TRUE
                           /\ pc' = "crashed"
                           /\ UNCHANGED <<audience_data, ran>>
                      ELSE /\ audience_data' = AudienceData(FilterRange(df, r[1], r[2]))
                           /\ ran' = ran \cup {"time_series"}
                           /\ pc' = "movie"
                           /\ UNCHANGED error
              ELSE /\ pc' = "movie"
                   /\ UNCHANGED <<audience_data, ran, error>>
    /\ UNCHANGED <<disk, cache, loads, df, from_cache, selected_columns, display_columns, preview,
                   whole_ratio, null_ratios, top_sales, top_audience, movie_name,
                   movie_data>>

\* lines 146-172: the selectbox, and for a selected movie its rows and chart
MovieDetail ==
    /\ pc = "movie"
    /\ \E nm \in SelectboxValues(df) :
        /\ movie_name' = nm
        /\ IF Truthy(nm)
              THEN /\ movie_data' = MovieData(df, nm)
                   /\ ran' = ran \cup {"movie"}
              ELSE UNCHANGED <<movie_data, ran>>
    /\ pc' = "done"
    /\ UNCHANGED <<disk, cache, loads, df, from_cache, selected_columns, display_columns, preview,
                   whole_ratio, null_ratios, top_sales, top_audience, date_range,
                   audience_data, error>>

\* a user interaction: the script runs again from the top with fresh
\* globals; the cache belongs to the process and stays
Rerun ==
    /\ pc \in {"done", "crashed"}
    /\ pc' = "load"
    /\ df' = <<>>
    /\ from_cache' = FALSE
    /\ selected_columns' = <<>>
    /\ display_columns' = <<>>
    /\ preview' = <<>>
    /\ whole_ratio' = <<>>
    /\ null_ratios' = <<>>
    /\ top_sales' = <<>>
    /\ top_audience' = <<>>
    /\ date_range' = <<>>
    /\ audience_data' = <<>>
    /\ movie_name' = NA
    /\ movie_data' = <<>>
    /\ ran' = {}
    /\ error' = FALSE
    /\ UNCHANGED <<disk, cache, loads>>

Next ==
    \/ LoadMiss
    \/ LoadHit
    \/ ShowPreview(BasicSelections)
    \/ ComputeNullRatios
    \/ ComputeTopSales(TieOrders)
    \/ ComputeTopAudience(TieOrders)
    \/ TimeSeries
    \/ MovieDetail
    \/ Rerun

NextCols ==
    \/ LoadMiss
    \/ LoadHit
    \/ ShowPreview(AllSelections)
    \/ ComputeNullRatios
    \/ ComputeTopSales(TieOrders)
    \/ ComputeTopAudience(TieOrders)
    \/ TimeSeries
    \/ MovieDetail
    \/ Rerun

\* the passes of a build whose sort keeps equal sums in their order
NextStable ==
    \/ LoadMiss
    \/ LoadHit
    \/ ShowPreview(BasicSelections)
    \/ ComputeNullRatios
    \/ ComputeTopSales({"first"})
    \/ ComputeTopAudience({"first"})
    \/ TimeSeries
    \/ MovieDetail
    \/ Rerun

Spec == Init /\ [][Next]_vars

SpecStable == Init /\ [][NextStable]_vars

SpecCols == InitCols /\ [][NextCols]_vars

SpecDates == InitDates /\ [][Next]_vars

----------------------------------------------------------------------------
(* Properties *)

\* the indices of the rows of table whose movieNm is nm
RowsOf(table, nm) == {i \in 1..Len(table) : table[i].movieNm = nm}

\* the sum of column col over the rows of table with index in idx
RECURSIVE Total(_, _, _)
Total(table, col, idx) ==
    IF idx = {} THEN 0
    ELSE LET i == CHOOSE x \in idx : TRUE
         IN  table[i][col] + Total(table, col, idx \ {i})

\* the non-null movie names of a table
NamesOf(table) == {table[i].movieNm : i \in 1..Len(table)} \ {NA}

\* C1: the preview shows the default columns when the selection is empty
\* and exactly the selected columns, in the selected order, otherwise; the
\* column set is never empty and the projection never raises.
C1_ColumnProjection ==
    /\ pc \notin {"load", "preview"} => "preview" \in ran /\ ~error /\ pc # "crashed"
    /\ "preview" \in ran =>
        /\ selected_columns = <<>> => preview.columns = default_columns
        /\ selected_columns # <<>> => preview.columns = selected_columns
        /\ preview.columns # <<>>
        /\ display_columns = preview.columns
        /\ Len(preview.rows) = Min2(HeadRows, Len(df))
        /\ \A i \in 1..Len(preview.rows) :
            /\ DOMAIN preview.rows[i] = Range(preview.columns)
            /\ \A c \in Range(preview.columns) : preview.rows[i][c] = df[i][c]

\* C1 witness: an empty selection was previewed with the default columns
C1_Witness ==
    /\ "preview" \in ran
    /\ selected_columns = <<>>
    /\ preview.columns = default_columns
    /\ preview.rows # <<>>

\* what C5 says of one ranking over measure col
RankingShape(top, col) ==
    /\ Len(top) = Min2(TopN, Cardinality(NamesOf(df)))
    /\ \A i \in 1..Len(top) :
        /\ top[i].movieNm \in NamesOf(df)
        /\ top[i].sum = Total(df, col, RowsOf(df, top[i].movieNm))
    /\ \A i, j \in 1..Len(top) : i < j =>
        /\ top[i].sum >= top[j].sum
        /\ top[i].movieNm # top[j].movieNm
    /\ \A nm \in NamesOf(df) \ {top[i].movieNm : i \in 1..Len(top)} :
        \A i \in 1..Len(top) : Total(df, col, RowsOf(df, nm)) <= top[i].sum

\* C5: each ranking has min(10, distinct movie names) rows, each with the
\* sum of the measure over the movie's rows, in non-increasing order of the
\* sum, and no movie left out has a strictly greater sum than one kept.
C5_TopNShape ==
    /\ "top_sales" \in ran => RankingShape(top_sales, "salesAmt")
    /\ "top_audience" \in ran => RankingShape(top_audience, "audiCnt")

\* C5 witness: more than ten movies, both rankings cut to ten rows, the
\* first row summing two rows of its movie
C5_Witness ==
    /\ "top_audience" \in ran
    /\ Cardinality(NamesOf(df)) > TopN
    /\ Len(top_sales) = TopN
    /\ Len(top_audience) = TopN
    /\ top_sales[1].sum > top_sales[TopN].sum
    /\ Cardinality(RowsOf(df, top_sales[1].movieNm)) = 2

\* C7: the per-date output has one row per distinct non-null date of the
\* table; a date with n rows of which k have a null flag (nation code) has
\* the ratio k/n with 0 <= k <= n and n > 0; the whole-table ratio of a
\* column is (null rows)/(rows).
C7_NullRatioByDate ==
    "null_ratios" \in ran =>
        /\ {null_ratios[g].dt : g \in 1..Len(null_ratios)}
              = {df[i].dt : i \in 1..Len(df)} \ {NaT}
        /\ \A g, h \in 1..Len(null_ratios) :
              g # h => null_ratios[g].dt # null_ratios[h].dt
        /\ \A g \in 1..Len(null_ratios) :
            LET rows == {i \in 1..Len(df) : df[i].dt = null_ratios[g].dt}
                n    == Cardinality(rows)
                km   == Cardinality({i \in rows : df[i].multiMovieYn = NA})
                kn   == Cardinality({i \in rows : df[i].repNationCd = NA})
            IN  /\ n > 0
                /\ null_ratios[g].multiMovieYn_null_ratio = <<km, n>>
                /\ null_ratios[g].repNationCd_null_ratio = <<kn, n>>
                /\ km <= n /\ kn <= n
        /\ whole_ratio =
              << <<Cardinality({i \in 1..Len(df) : df[i].multiMovieYn = NA}), Len(df)>>,
                 <<Cardinality({i \in 1..Len(df) : df[i].repNationCd = NA}), Len(df)>> >>

\* C7 witness: a date with two rows, one with a null flag (ratio 1/2), in a
\* table that also has a row without a date
C7_Witness ==
    /\ "null_ratios" \in ran
    /\ \E g \in 1..Len(null_ratios) : null_ratios[g].multiMovieYn_null_ratio = <<1, 2>>
    /\ \E i \in 1..Len(df) : df[i].dt = NaT

\* C9: the body of load_data runs at most once per process; every pass
\* works on the table the first load produced, and no section changes it.
C9_WriteOnceCache ==
    /\ loads <= 1
    /\ cache # <<>> => loads = 1 /\ Head(cache) = LoadBody(disk)
    /\ pc # "load" => cache # <<>> /\ df = Head(cache)
    /\ from_cache => loads = 1

\* C9, step form: once the cache is filled no step changes it or reads the
\* disk again, and no section changes the table a pass is working on
C9_CacheNeverRewritten ==
    [][/\ cache # <<>> => cache' = cache /\ loads' = loads
       /\ pc # "load" /\ pc' # "load" => df' = df]_vars

\* C9 witness: a later pass, served from the cache, has run to its end
C9_Witness ==
    /\ pc = "done"
    /\ from_cache
    /\ loads = 1
    /\ df = LoadBody(disk)
    /\ Sections \subseteq ran

\* C10: with fewer than two endpoints the time-series section is skipped,
\* with no movie selected the per-movie section is skipped, and in both
\* cases no pass is aborted and every other section has run by the end.
C10_PartialSelections ==
    /\ ~error /\ pc # "crashed"
    /\ "time_series" \in ran => Len(date_range) = 2
    /\ "movie" \in ran => Truthy(movie_name)
    /\ "time_series" \notin ran => audience_data = <<>>
    /\ "movie" \notin ran => movie_data = <<>>
    /\ pc = "movie" \/ pc = "done" => (Len(date_range) = 2 => "time_series" \in ran)
    /\ pc = "done" =>
        /\ {"preview", "null_ratios", "top_sales", "top_audience"} \subseteq ran
        /\ Truthy(movie_name) => "movie" \in ran

\* C10 witness: a pass that ended with one endpoint and no movie selected
C10_Witness ==
    /\ pc = "done"
    /\ Len(date_range) = 1
    /\ ~Truthy(movie_name)
    /\ ran = {"preview", "null_ratios", "top_sales", "top_audience"}

\* the date_input holds two endpoints with start after end
Inverted == Len(date_range) = 2 /\ date_range[1] > date_range[2]

\* C6: a range with start > end gives an empty time-series result for every
\* non-empty dataset, without an error, and the per-movie section still runs.
C6_InvertedRange ==
    Inverted =>
        /\ "time_series" \in ran
        /\ audience_data = <<>>
        /\ ~error /\ pc # "crashed"
        /\ pc = "done" /\ Truthy(movie_name) => "movie" \in ran

\* C6 witness: an inverted range over a table with dated rows with both
\* keys, the pass ended with the per-movie rows extracted
C6_Witness ==
    /\ Inverted
    /\ pc = "done"
    /\ "movie" \in ran
    /\ movie_data # <<>>
    /\ \E i \in 1..Len(df) :
        /\ df[i].dt # NaT
        /\ df[i].multiMovieYn # NA
        /\ df[i].repNationCd # NA

\* the index of the first row of table whose movieNm is nm
FirstAppearance(table, nm) ==
    CHOOSE i \in RowsOf(table, nm) : \A j \in RowsOf(table, nm) : i <= j

\* the rows of a ranking with equal sums are in order of first appearance
TiesByFirstAppearance(top) ==
    \A i, j \in 1..Len(top) :
        i < j /\ top[i].sum = top[j].sum =>
            FirstAppearance(df, top[i].movieNm) < FirstAppearance(df, top[j].movieNm)

\* C2: movies with equal summed measure appear in the top-10 output in the
\* order of their first appearance in the dataset.
C2_TiesFirstAppearance ==
    /\ "top_sales" \in ran => TiesByFirstAppearance(top_sales)
    /\ "top_audience" \in ran => TiesByFirstAppearance(top_audience)

\* the k-th smallest element of a finite set of integers
Nth(S, k) == CHOOSE x \in S : Cardinality({y \in S : y < x}) = k - 1

\* movie_data is the rows of the selected movie, each once, nothing added
\* or merged, in the row order of the table
RowsInTableOrder ==
    LET idx == RowsOf(df, movie_name)
    IN  /\ Len(movie_data) = Cardinality(idx)
        /\ \A k \in 1..Len(movie_data) :
            /\ DOMAIN movie_data[k] = {"dt", "audiCnt", "salesAmt"}
            /\ movie_data[k].dt = df[Nth(idx, k)].dt
            /\ movie_data[k].audiCnt = df[Nth(idx, k)].audiCnt
            /\ movie_data[k].salesAmt = df[Nth(idx, k)].salesAmt

\* the dated rows of movie_data are in ascending dt order
AscendingDt ==
    \A i, j \in 1..Len(movie_data) :
        i < j /\ movie_data[i].dt # NaT /\ movie_data[j].dt # NaT =>
            movie_data[i].dt <= movie_data[j].dt

\* C3 as stated: the extracted rows are exactly the rows of the movie and
\* are in ascending dt order whatever the row order of the dataset.
C3_SeriesAscending ==
    "movie" \in ran => RowsInTableOrder /\ AscendingDt

\* C3 as amended: the extracted rows are exactly the rows of the movie
\* (duplicate dates kept, none added, merged or re-aggregated) in the row
\* order of the loaded dataset; they are in ascending dt order when the
\* movie's rows are in that order in the dataset.
C3_SeriesInDatasetOrder ==
    "movie" \in ran =>
        /\ RowsInTableOrder
        /\ (\A i, j \in RowsOf(df, movie_name) : i < j => df[i].dt <= df[j].dt)
              => AscendingDt

\* C3 witness: a movie with rows on two dates, the later date first in the
\* dataset, extracted in that order
C3_Witness ==
    /\ "movie" \in ran
    /\ Len(movie_data) >= 2
    /\ movie_data[1].dt > movie_data[2].dt
    /\ movie_data[2].dt # NaT

\* the indices of the rows in the selected range
InRange ==
    {i \in 1..Len(df) : df[i].dt # NaT /\ date_range[1] <= df[i].dt
                        /\ df[i].dt <= date_range[2]}

\* the key of a row of df or of audience_data
Key3(r) == <<r.dt, r.multiMovieYn, r.repNationCd>>

\* audience_data has exactly one row for each key in keys, carrying the sum
\* of audiCnt over the rows in the range with that key, and no other row
OneRowPerKey(keys) ==
    /\ {Key3(audience_data[g]) : g \in 1..Len(audience_data)} = keys
    /\ \A g, h \in 1..Len(audience_data) :
          g # h => Key3(audience_data[g]) # Key3(audience_data[h])
    /\ \A g \in 1..Len(audience_data) :
          audience_data[g].audiCnt =
              Total(df, "audiCnt", {i \in InRange : Key3(df[i]) = Key3(audience_data[g])})

\* C4 as stated: one row for every (dt, flag, code) combination among the
\* rows in the range, combinations with a null flag or code included.
C4_OneRowPerCombination ==
    "time_series" \in ran => OneRowPerKey({Key3(df[i]) : i \in InRange})

\* C4 as amended: one row for every (dt, flag, code) combination among the
\* rows with start <= dt <= end (endpoints included) whose flag and code
\* are both non-null, with the sum of audiCnt over the matching rows; rows
\* with a null flag or code are left out of the result; no absent
\* combination appears and no key is duplicated.
C4_OneRowPerNonNullCombination ==
    "time_series" \in ran =>
        OneRowPerKey({Key3(df[i]) : i \in {j \in InRange : df[j].multiMovieYn # NA
                                                           /\ df[j].repNationCd # NA}})

\* C4 witness: a range of one day whose rows are kept (endpoints included),
\* a row in it left out for its null key, an output row that sums two rows
C4_Witness ==
    /\ "time_series" \in ran
    /\ date_range[1] = date_range[2]
    /\ \E i \in InRange : df[i].multiMovieYn = NA \/ df[i].repNationCd = NA
    /\ \E g \in 1..Len(audience_data) :
          Cardinality({i \in InRange : Key3(df[i]) = Key3(audience_data[g])}) = 2

\* C8: a loaded dt is null when the raw value is not 8 digits forming a
\* valid calendar date and is otherwise that date (formatting it back as
\* YYYYMMDD gives the raw value); the load keeps every row and leaves the
\* other fields of each row as they were.
C8_DateNormalisation ==
    pc # "load" =>
        /\ Len(df) = Len(disk)
        /\ \A i \in 1..Len(disk) :
            /\ IsValidYmd8(disk[i].dt) =>
                  df[i].dt # NaT /\ FormatDate(df[i].dt) = disk[i].dt
            /\ ~IsValidYmd8(disk[i].dt) => df[i].dt = NaT
            /\ \A c \in Range(all_columns) \ {"dt"} : df[i][c] = disk[i][c]

====
